---- MODULE Spec2Model ----
(***************************************************************************)
(* Navigation and spatial interaction of the CV-3D walkthrough:            *)
(* RoomManager (hall <-> period room), the per-frame proximity scan of     *)
(* main.ts, the InputManager key state, the overlay stack and the layout   *)
(* formulas of the hall.                                                   *)
(*                                                                         *)
(* Coordinates are integers on a half-unit grid (1 grid step = 0.5 world   *)
(* unit), so 2.5 is 5, 1.5 is 3 and (0, 0, 5) is <<0, 0, 10>>.  A point is *)
(* <<x, y, z>>.  Layout values that need not fall on the grid are exact    *)
(* fractions <<numerator, denominator>>.                                   *)
(***************************************************************************)
EXTENDS Integers, Sequences, FiniteSets, TLC

VARIABLES
    \* RoomManager
    currentRoom,        \* state.currentRoom: "hall" | "period"
    activePeriodRoom,   \* state.activePeriodRoom: index into rooms, 0 = null
    visitedDoorIds,     \* state.visitedDoorIds
    isTransitioning,    \* the reentrancy guard
    hallVisible,        \* hallGroup.visible
    rooms,              \* every PeriodRoom object built so far
    lastEnter,          \* how the latest enterPeriodRoom call ended
    \* Player
    playerPos,          \* group.position
    \* InputManager
    keys,               \* keys currently down
    justPressed,        \* keys pressed and not yet read
    movement,           \* <<x, z>> signs of the movement vector
    \* OverlayManager
    overlayStack,       \* stack of overlay contents, top last
    \* main.ts
    doors,              \* the Door objects in registration order
    nearbyDoor,         \* index into doors, 0 = null
    promptVisible,      \* InteractionPrompt has class "visible"
    promptText,         \* InteractionPrompt text
    pending,            \* enterDoor calls awaiting api.getPeriode (door indexes)
    \* direct application of a pure function
    args,               \* the inputs drawn
    ret,                \* <<>> before the function is applied, <<result>> after
    \* Player.update on its own
    player,             \* the Player object: position, angles, camera
    \* the keyboard, the contact forms, a SuccessNotification on its own
    held,               \* keys physically down
    forms,              \* every ContactForm object built so far
    notification        \* a SuccessNotification object and its timers

vars == <<currentRoom, activePeriodRoom, visitedDoorIds, isTransitioning,
          hallVisible, rooms, lastEnter, playerPos, keys, justPressed,
          movement, overlayStack, doors, nearbyDoor, promptVisible,
          promptText, pending, args, ret, player, held, forms,
          notification>>

rmVars == <<currentRoom, activePeriodRoom, visitedDoorIds, isTransitioning,
            hallVisible, rooms, lastEnter, playerPos>>

inputVars == <<keys, justPressed, movement>>

mainVars == <<doors, nearbyDoor, promptVisible, promptText, pending>>

fnVars == <<args, ret>>

uiVars == <<held, forms, notification>>

----------------------------------------------------------------------------
\* Bounds of the model

\* PeriodRoom objects built in one run
MaxRooms == 2
\* enterDoor calls awaiting their fetch at the same time
MaxPending == 2
\* projects (cubes) in a fetched period
MaxProjets == 2
\* overlays open at the same time
MaxOverlays == 1
\* door counts per category tried on the layout formulas
MaxCount == 12
\* coordinates tried on isNear: -MaxCoord..MaxCoord
MaxCoord == 5
\* periods in an answer of getCV tried on initializeWorld
MaxPeriodes == 3
\* angles tried on lerpAngle: the multiples of pi/4 up to MaxEighths of them
MaxEighths == 8
\* frames of Player.update in a row
MaxFrames == 3
\* ContactForm objects built in one run
MaxForms == 2
\* calls made on an object taken on its own (OverlayManager,
\* SuccessNotification)
MaxCalls == 4
\* overlays open at once where the contact form is followed
MaxDepth == 2

----------------------------------------------------------------------------
\* Vectors

Max(a, b) == IF a >= b THEN a ELSE b

Min(a, b) == IF a <= b THEN a ELSE b

\* THREE.Vector3.distanceToSquared
distanceToSquared(p, q) ==
    (p[1] - q[1]) * (p[1] - q[1])
    + (p[2] - q[2]) * (p[2] - q[2])
    + (p[3] - q[3]) * (p[3] - q[3])

\* position.distanceTo(q) < threshold; a distance is >= 0, so the square
\* root is compared through the squares
distanceLess(p, q, threshold) ==
    threshold > 0 /\ distanceToSquared(p, q) < threshold * threshold

----------------------------------------------------------------------------
\* Anchors: Door, ProjectCube, Teleporter

\* door.isNear(playerPos, 2.5), in grid steps
DoorThreshold == 5
\* cube.isNear(playerPos, 1.5), in grid steps
CubeThreshold == 3
\* teleporter.isNear(playerPos, 2), in grid steps
TeleporterThreshold == 4

\* Door.isNear with the height kept in the distance
DoorIsNear_KeepsHeight(doorPosition, position, threshold) ==
    distanceLess(position, doorPosition, threshold)

\* Door.isNear with <= for <
DoorIsNear_Inclusive(doorPosition, position, threshold) ==
    LET doorPos == <<doorPosition[1], position[2], doorPosition[3]>>
    IN  threshold > 0
        /\ distanceToSquared(position, doorPos) <= threshold * threshold

\* Door.isNear: doorPos.y = position.y, then distanceTo < threshold
DoorIsNear(doorPosition, position, threshold) ==
    LET doorPos == <<doorPosition[1], position[2], doorPosition[3]>>
    IN  distanceLess(position, doorPos, threshold)

\* ProjectCube.isNear
CubeIsNear(cubePosition, position, threshold) ==
    LET cubePos == <<cubePosition[1], position[2], cubePosition[3]>>
    IN  distanceLess(position, cubePos, threshold)

\* Teleporter.isNear
TeleporterIsNear(teleporterPosition, position, threshold) ==
    LET teleporterPos ==
            <<teleporterPosition[1], position[2], teleporterPosition[3]>>
    IN  distanceLess(position, teleporterPos, threshold)

\* the emissive colour highlight() gives the material
Emissive(enabled) == IF enabled THEN "#333333" ELSE "#000000"

\* Door.highlight that never turns the highlight off again
DoorHighlight_Sticky(door, enabled) ==
    IF door.isHighlighted \/ ~enabled
    THEN door
    ELSE [door EXCEPT !.isHighlighted = TRUE, !.emissive = Emissive(TRUE)]

\* Door.highlight(enabled)
DoorHighlight(door, enabled) ==
    IF door.isHighlighted = enabled
    THEN door
    ELSE [door EXCEPT !.isHighlighted = enabled,
                      !.emissive = Emissive(enabled)]

\* ProjectCube.highlight(enabled)
CubeHighlight(cube, enabled) ==
    IF cube.isHighlighted = enabled
    THEN cube
    ELSE [cube EXCEPT !.isHighlighted = enabled,
                      !.emissive = Emissive(enabled)]

\* Door.setOpen
SetOpen(door, open) ==
    IF door.isOpen = open THEN door ELSE [door EXCEPT !.isOpen = open]

\* new Door(config): closed, not highlighted, material not emissive
NewDoor(id, position) ==
    [id |-> id, position |-> position, isHighlighted |-> FALSE,
     isOpen |-> FALSE, emissive |-> Emissive(FALSE)]

----------------------------------------------------------------------------
\* Hall layout (calculateRoomDimensions, calculateDoorPosition)

minSpacing == 3
widthMargin == 4
depthMargin == 7
minWidth == 14
maxWidth == 33
minDepth == 11
maxDepth == 28
fixedHeight == 5

\* calculateRoomDimensions without the upper bounds
calculateRoomDimensions_NoMaximum(formationCount, travailCount) ==
    [width  |-> Max(minWidth, travailCount * minSpacing + widthMargin),
     depth  |-> Max(minDepth, formationCount * minSpacing + depthMargin),
     height |-> fixedHeight]

\* calculateRoomDimensions with the depth margin left out
calculateRoomDimensions_NoMargin(formationCount, travailCount) ==
    [width  |-> Max(minWidth,
                    Min(maxWidth, travailCount * minSpacing + widthMargin)),
     depth  |-> Max(minDepth, Min(maxDepth, formationCount * minSpacing)),
     height |-> fixedHeight]

calculateRoomDimensions(formationCount, travailCount) ==
    [width  |-> Max(minWidth,
                    Min(maxWidth, travailCount * minSpacing + widthMargin)),
     depth  |-> Max(minDepth,
                    Min(maxDepth, formationCount * minSpacing + depthMargin)),
     height |-> fixedHeight]

\* calculateDoorPosition with the travail spacing divided by the number of
\* doors, not of intervals
calculateDoorPosition_TravailByTotal(type, index, totalOfType, roomWidth, roomDepth) ==
    IF type = "formation"
    THEN LET n == Max(totalOfType, 1)
             availableDepth == roomDepth - 5
         IN  [x |-> <<-roomWidth * n, 2 * n>>,
              z |-> <<(roomDepth - 5) * n - 2 * index * availableDepth,
                      2 * n>>,
              rotation |-> 90]
    ELSE LET n == Max(totalOfType, 1)
             availableWidth == roomWidth - 4
         IN  [x |-> <<-availableWidth * n + 2 * index * availableWidth,
                      2 * n>>,
              z |-> <<-roomDepth * n, 2 * n>>,
              rotation |-> 0]

\* calculateDoorPosition with the formation doors counted from the far end
calculateDoorPosition_FormationReversed(type, index, totalOfType, roomWidth, roomDepth) ==
    IF type = "formation"
    THEN LET n == Max(totalOfType, 1)
             availableDepth == roomDepth - 5
         IN  [x |-> <<-roomWidth * n, 2 * n>>,
              z |-> <<-(roomDepth - 5) * n + 2 * index * availableDepth,
                      2 * n>>,
              rotation |-> 90]
    ELSE LET n == Max(totalOfType - 1, 1)
             availableWidth == roomWidth - 4
         IN  [x |-> <<-availableWidth * n + 2 * index * availableWidth,
                      2 * n>>,
              z |-> <<-roomDepth * n, 2 * n>>,
              rotation |-> 0]

\* calculateDoorPosition; index counts from 0.  x and z are exact fractions
\* over the common denominator 2 * Math.max(..., 1); rotation is in degrees.
calculateDoorPosition(type, index, totalOfType, roomWidth, roomDepth) ==
    IF type = "formation"
    THEN LET n == Max(totalOfType, 1)
             availableDepth == roomDepth - 5
             \* leftWallX = -roomWidth / 2
             \* spacing = availableDepth / n
             \* startZ = roomDepth / 2 - 2.5
             \* z = startZ - index * spacing
         IN  [x |-> <<-roomWidth * n, 2 * n>>,
              z |-> <<(roomDepth - 5) * n - 2 * index * availableDepth,
                      2 * n>>,
              rotation |-> 90]
    ELSE LET n == Max(totalOfType - 1, 1)
             availableWidth == roomWidth - 4
             \* backWallZ = -roomDepth / 2
             \* spacing = availableWidth / n
             \* startX = -availableWidth / 2
             \* x = startX + index * spacing
         IN  [x |-> <<-availableWidth * n + 2 * index * availableWidth,
                      2 * n>>,
              z |-> <<-roomDepth * n, 2 * n>>,
              rotation |-> 0]

\* a fraction falls on the half-unit grid
OnGrid(q) == (2 * q[1]) % q[2] = 0

\* the grid value of a fraction that is on the grid
ToGrid(q) == (2 * q[1]) \div q[2]

----------------------------------------------------------------------------
\* World initialisation (initializeWorld)

\* A period of api.getCV(): dates.debut is its start year
Periode(id, type, debut) == [id |-> id, type |-> type, debut |-> debut]

\* a.dates.debut.localeCompare(b.dates.debut) <= 0
DebutBefore(a, b) == a.debut <= b.debut

RECURSIVE InsertByDebut(_, _)
\* p placed after every period of the sorted s that does not start after it
InsertByDebut(p, s) ==
    IF s = <<>> THEN <<p>>
    ELSE IF DebutBefore(s[1], p)
         THEN <<s[1]>> \o InsertByDebut(p, Tail(s))
         ELSE <<p>> \o s

RECURSIVE SortByDebut(_)
\* the sort left out
SortByDebut_Unsorted(s) == s

\* cvData.periodes.sort(...): Array.prototype.sort is stable
SortByDebut(s) ==
    IF s = <<>> THEN <<>>
    ELSE InsertByDebut(s[Len(s)], SortByDebut(SubSeq(s, 1, Len(s) - 1)))

IsFormation(p) == p.type = "formation"

IsTravail(p) == p.type = "travail"

\* the doors of one category, in index order
DoorsOfType(type, periods, dims) ==
    [i \in 1..Len(periods) |->
        LET place == calculateDoorPosition(type, i - 1, Len(periods),
                                           dims.width, dims.depth)
        IN  NewDoor(periods[i].id,
                    <<ToGrid(place.x), 0, ToGrid(place.z)>>)]

\* the fallback door of the catch block, at (0, 0, -7.5)
FallbackDoor == NewDoor("error", <<0, 0, -15>>)

\* the default hall of the catch block: new Room({width: 20, depth: 15, ...})
DefaultHall == [width |-> 20, depth |-> 15, height |-> fixedHeight]

\* the try block of initializeWorld: await api.getCV() throws when the
\* request fails, before any door or hall is made; otherwise doors holds
\* the doors pushed and halls the Room objects added to hallGroup
initializeWorldTry(response) ==
    IF ~response.ok
    THEN [thrown |-> TRUE, doors |-> <<>>, halls |-> <<>>]
    ELSE LET sortedPeriods == SortByDebut(response.periodes)
             formations == SelectSeq(sortedPeriods, IsFormation)
             travaux == SelectSeq(sortedPeriods, IsTravail)
             roomDimensions ==
                 calculateRoomDimensions(Len(formations), Len(travaux))
         IN  [thrown |-> FALSE,
              doors |-> DoorsOfType("formation", formations, roomDimensions)
                        \o DoorsOfType("travail", travaux, roomDimensions),
              halls |-> <<roomDimensions>>]

\* a catch block that logs and throws again
initializeWorldCatch_Rethrow(t) == t

\* the catch block of initializeWorld: a default hall and the fallback door
\* are added to what the try block left
initializeWorldCatch(t) ==
    [thrown |-> FALSE,
     doors |-> Append(t.doors, FallbackDoor),
     halls |-> Append(t.halls, DefaultHall)]

\* initializeWorld as a whole: whether it throws, the doors array and the
\* halls it leaves
initializeWorldOutcome(response) ==
    LET t == initializeWorldTry(response)
    IN  IF t.thrown THEN initializeWorldCatch(t) ELSE t

\* initializeWorld: the doors array it leaves, given the answer of getCV
initializeWorld(response) == initializeWorldOutcome(response).doors

\* every door of the answer falls on the half-unit grid
WorldOnGrid(response) ==
    response.ok =>
        LET formations == SelectSeq(response.periodes, IsFormation)
            travaux == SelectSeq(response.periodes, IsTravail)
            dims == calculateRoomDimensions(Len(formations), Len(travaux))
        IN  /\ \A i \in 1..Len(formations) :
                LET place == calculateDoorPosition("formation", i - 1,
                                 Len(formations), dims.width, dims.depth)
                IN  OnGrid(place.x) /\ OnGrid(place.z)
            /\ \A i \in 1..Len(travaux) :
                LET place == calculateDoorPosition("travail", i - 1,
                                 Len(travaux), dims.width, dims.depth)
                IN  OnGrid(place.x) /\ OnGrid(place.z)

\* The answers of api.getCV() tried: four formations out of date order
\* (doors 3.5 units apart on the left wall), and a failed request.
CVResponses ==
    { [ok |-> TRUE,
       periodes |-> << Periode("c", "formation", 2019),
                       Periode("a", "formation", 2015),
                       Periode("d", "formation", 2021),
                       Periode("b", "formation", 2017) >>],
      [ok |-> FALSE, periodes |-> <<>>] }

----------------------------------------------------------------------------
\* PeriodRoom

\* new ProjectCube(...) number index (from 0) of createProjectCubes:
\* cubesPerRow = 3, spacing = 2, x = -2 + col * 2, z = row * 2 - 2
NewCube(index) ==
    [position |-> <<4 * (index % 3) - 4, 0, 4 * (index \div 3) - 4>>,
     isHighlighted |-> FALSE,
     emissive |-> Emissive(FALSE)]

\* new PeriodRoom({ periode }): periode.projets is the number of projects.
\* attached: the group is a child of the scene; disposed: the geometries
\* and materials below the group are disposed and its children removed;
\* labelsInDom: the CSS2D label elements have a parent node.
NewPeriodRoom(periode) ==
    [periodeId |-> periode.id,
     cubes |-> [i \in 1..periode.projets |-> NewCube(i - 1)],
     attached |-> FALSE,
     disposed |-> FALSE,
     labelsInDom |-> FALSE]

\* getEntryPosition(): (0, 0, DEPTH / 2 - 1.5) with DEPTH = 10
EntryPosition == <<0, 0, 7>>

\* the teleporter of createTeleporter, at (0, 0, -DEPTH / 2 + 2)
TeleporterPosition == <<0, 0, -6>>

\* the hall spawn point (0, 0, 5) of exitToHall and of new Player
HallSpawn == <<0, 0, 10>>

----------------------------------------------------------------------------
\* RoomManager, on a record s of its state and the objects it acts on:
\* currentRoom, activePeriodRoom, visitedDoorIds, isTransitioning,
\* hallVisible, rooms, playerPos, and outcome (how the call ended).

RoomManagerState ==
    [currentRoom |-> currentRoom,
     activePeriodRoom |-> activePeriodRoom,
     visitedDoorIds |-> visitedDoorIds,
     isTransitioning |-> isTransitioning,
     hallVisible |-> hallVisible,
     rooms |-> rooms,
     playerPos |-> playerPos,
     outcome |-> lastEnter]

\* Player.setPosition(position) without a rotation
setPosition(s, position) == [s EXCEPT !.playerPos = position]

\* the statements of the try block; failAt names the call that throws
\* ("none": no call throws).  A call that throws has no effect of its own.
enterTryBlock(s, periode, failAt) ==
    IF failAt = "construct"
    THEN [s EXCEPT !.outcome = "rejected"]
    ELSE
    \* 1. periodRoom = new PeriodRoom; state.activePeriodRoom = periodRoom
    LET r  == Len(s.rooms) + 1
        s1 == [s EXCEPT !.rooms = Append(@, NewPeriodRoom(periode)),
                        !.activePeriodRoom = r]
    IN  IF failAt = "attach"
        THEN [s1 EXCEPT !.outcome = "rejected"]
        ELSE
        \* 2. engine.add(periodRoom.getObject())
        \* 3. hallGroup.visible = false
        LET s3 == [s1 EXCEPT !.rooms[r].attached = TRUE,
                             !.hallVisible = FALSE]
        IN  IF failAt = "teleport"
            THEN [s3 EXCEPT !.outcome = "rejected"]
            ELSE
            \* 4. player.setPosition(periodRoom.getEntryPosition())
            \* 5. state.visitedDoorIds.add(periode.id)
            \* 6. state.currentRoom = "period"
            [setPosition(s3, EntryPosition) EXCEPT
                !.visitedDoorIds = @ \cup {periode.id},
                !.currentRoom = "period",
                !.outcome = "resolved"]

\* the guard reset only when the try block ends normally (no finally)
enterFinallyBlock_OnSuccessOnly(s) ==
    IF s.outcome = "rejected" THEN s ELSE [s EXCEPT !.isTransitioning = FALSE]

\* finally { this.isTransitioning = false; }
enterFinallyBlock(s) == [s EXCEPT !.isTransitioning = FALSE]

\* RoomManager.enterPeriodRoom(periode)
enterPeriodRoom(s, periode, failAt) ==
    IF s.isTransitioning
    THEN [s EXCEPT !.outcome = "ignored"]
    ELSE enterFinallyBlock(
             enterTryBlock([s EXCEPT !.isTransitioning = TRUE],
                           periode, failAt))

\* RoomManager.disposeRoom(room): labels leave the DOM, meshes are disposed,
\* the children (the cubes among them) are removed from the group
disposeRoom(room) ==
    [room EXCEPT !.labelsInDom = FALSE, !.disposed = TRUE, !.cubes = <<>>]

\* exitToHall that leaves the hall hidden
exitToHall_HallStaysHidden(s) ==
    IF s.activePeriodRoom = 0
    THEN s
    ELSE [setPosition(s, HallSpawn) EXCEPT
            !.rooms[s.activePeriodRoom] = disposeRoom([@ EXCEPT !.attached = FALSE]),
            !.activePeriodRoom = 0,
            !.currentRoom = "hall"]

\* exitToHall that leaves the player where it stands
exitToHall_NoTeleport(s) ==
    IF s.activePeriodRoom = 0
    THEN s
    ELSE [s EXCEPT
            !.rooms[s.activePeriodRoom] = disposeRoom([@ EXCEPT !.attached = FALSE]),
            !.activePeriodRoom = 0,
            !.hallVisible = TRUE,
            !.currentRoom = "hall"]

\* RoomManager.exitToHall()
exitToHall(s) ==
    IF s.activePeriodRoom = 0
    THEN s
    ELSE
    \* 1. engine.remove(room)   2. disposeRoom(room)
    \* 3. activePeriodRoom = null   4. hallGroup.visible = true
    \* 5. player.setPosition((0, 0, 5))   6. currentRoom = "hall"
    [setPosition(s, HallSpawn) EXCEPT
        !.rooms[s.activePeriodRoom] = disposeRoom([@ EXCEPT !.attached = FALSE]),
        !.activePeriodRoom = 0,
        !.hallVisible = TRUE,
        !.currentRoom = "hall"]

\* markDoorAsVisited that replaces the set
markDoorAsVisited_Replace(s, doorId) == [s EXCEPT !.visitedDoorIds = {doorId}]

\* RoomManager.markDoorAsVisited(doorId)
markDoorAsVisited(s, doorId) ==
    [s EXCEPT !.visitedDoorIds = @ \cup {doorId}]

\* RoomManager.isDoorVisited(doorId)
isDoorVisited(doorId) == doorId \in visitedDoorIds

\* the variables of the RoomManager take the values of s
SetRoomManager(s) ==
    /\ currentRoom' = s.currentRoom
    /\ activePeriodRoom' = s.activePeriodRoom
    /\ visitedDoorIds' = s.visitedDoorIds
    /\ isTransitioning' = s.isTransitioning
    /\ hallVisible' = s.hallVisible
    /\ rooms' = s.rooms
    /\ playerPos' = s.playerPos
    /\ lastEnter' = s.outcome

----------------------------------------------------------------------------
\* OverlayManager: the stack holds the content of each overlay, top last

\* what an overlay shows: the contact form number item, the error message
\* of enterDoor, or the project of cube number item
OverlayContent(kind, item) == [kind |-> kind, item |-> item]

\* OverlayManager.open(content)
overlayOpen(stack, content) == Append(stack, content)

\* close() taking the oldest overlay
overlayClose_Oldest(stack) == IF Len(stack) = 0 THEN stack ELSE Tail(stack)

\* OverlayManager.close()
overlayClose(stack) ==
    IF Len(stack) = 0 THEN stack ELSE SubSeq(stack, 1, Len(stack) - 1)

RECURSIVE overlayCloseAll(_)
\* OverlayManager.closeAll(): while (length > 0) close()
overlayCloseAll(stack) ==
    IF Len(stack) > 0 THEN overlayCloseAll(overlayClose(stack)) ELSE stack

\* OverlayManager.hasActiveOverlay()
hasActiveOverlay == Len(overlayStack) > 0

----------------------------------------------------------------------------
\* SuccessNotification.  Elements and timers are numbered as they are
\* created; 0 is null.  Times are in tenths of a second.  A timer is
\* [id, kind, left]: kind "frame" is the requestAnimationFrame callback of
\* show, "autoClose" the timer of show, "remove" the timer of hide, and left
\* the time before it is due.

\* DISPLAY_DURATION = 3000
DISPLAY_DURATION == 30

\* SLIDE_DURATION = 400
SLIDE_DURATION == 4

\* new SuccessNotification()
NewNotification ==
    [element |-> 0, created |-> 0, dom |-> {}, shown |-> {},
     autoCloseTimer |-> 0, timerIds |-> 0, timers |-> {}]

\* window.setTimeout / requestAnimationFrame: the timer is numbered
setTimer(n, kind, left) ==
    [n EXCEPT !.timerIds = @ + 1,
              !.timers = @ \cup {[id |-> n.timerIds + 1, kind |-> kind,
                                  left |-> left]}]

\* clearTimeout(id)
clearTimer(n, id) == [n EXCEPT !.timers = {t \in @ : t.id # id}]

\* SuccessNotification.hide()
notificationHide(n) ==
    IF n.element = 0 THEN n
    ELSE LET cleared == IF n.autoCloseTimer # 0
                        THEN [clearTimer(n, n.autoCloseTimer) EXCEPT
                                !.autoCloseTimer = 0]
                        ELSE n
         IN  setTimer([cleared EXCEPT !.shown = @ \ {n.element}],
                      "remove", SLIDE_DURATION)

\* SuccessNotification.show()
notificationShow(n) ==
    LET hidden == IF n.element # 0 /\ n.element \in n.dom
                  THEN notificationHide(n) ELSE n
        e == hidden.created + 1
        added == [hidden EXCEPT !.element = e, !.created = e,
                                !.dom = @ \cup {e}]
        framed == setTimer(added, "frame", 0)
    IN  [setTimer(framed, "autoClose", DISPLAY_DURATION) EXCEPT
            !.autoCloseTimer = framed.timerIds + 1]

\* the callback of timer t runs
notificationTimer(n, t) ==
    LET fired == [n EXCEPT !.timers = @ \ {t}]
    IN  CASE t.kind = "frame" ->
               \* if (this.element) this.element.classList.add("show")
               IF fired.element # 0
               THEN [fired EXCEPT !.shown = @ \cup {fired.element}]
               ELSE fired
          [] t.kind = "autoClose" -> notificationHide(fired)
          [] OTHER ->
               \* if (this.element && this.element.parentNode) { remove }
               IF fired.element # 0 /\ fired.element \in fired.dom
               THEN [fired EXCEPT !.dom = @ \ {fired.element},
                                  !.element = 0]
               ELSE fired

\* a tenth of a second passes
notificationTick(n) ==
    [n EXCEPT !.timers = {[t EXCEPT !.left = @ - 1] : t \in @}]

----------------------------------------------------------------------------
\* ContactForm.  stage is where handleSubmit stands: "idle", "sending"
\* (awaiting sendContact) or "delay" (awaiting the rest of the 500 ms);
\* inFlight counts the sendContact requests not yet answered; notify is
\* "scheduled" once setTimeout(() => successNotification.show(), 300) ran.

\* new ContactForm()
NewContactForm ==
    [isSubmitting |-> FALSE, disabled |-> FALSE, stage |-> "idle",
     inFlight |-> 0, response |-> "none", formError |-> FALSE,
     notify |-> "none"]

\* ContactForm.showLoader()
showLoader(form) == [form EXCEPT !.disabled = TRUE]

\* ContactForm.hideLoader()
hideLoader(form) == [form EXCEPT !.isSubmitting = FALSE, !.disabled = FALSE]

\* ContactForm.showFormError(message)
showFormError(form) == [form EXCEPT !.formError = TRUE]

\* ContactForm.closeWithSuccess(): the listener the InputManager put on
\* "contactFormSuccess" calls overlayManager.close()
closeWithSuccess(stack) == overlayClose(stack)

\* handleSubmit without its first line
handleSubmit_NoGuard(form, valid) ==
    IF ~valid THEN form
    ELSE [showLoader([form EXCEPT !.isSubmitting = TRUE]) EXCEPT
            !.stage = "sending", !.inFlight = @ + 1]

\* ContactForm.handleSubmit() up to await sendContact; valid is what
\* validateAllFields() answers
handleSubmit(form, valid) ==
    IF form.isSubmitting THEN form
    ELSE IF ~valid THEN form
    ELSE [showLoader([form EXCEPT !.isSubmitting = TRUE]) EXCEPT
            !.stage = "sending", !.inFlight = @ + 1]

\* handleSubmit from "Etape 4" on: response.success, or success: false
handleSubmitAnswer(form, response) ==
    IF response = "success"
    THEN \* closeWithSuccess() and the timer of the notification; the
         \* loader stays
         [form EXCEPT !.stage = "idle", !.response = response,
                      !.notify = "scheduled"]
    ELSE hideLoader(showFormError([form EXCEPT !.stage = "idle",
                                               !.response = response]))

\* handleSubmit when sendContact resolves; late: the answer took 500 ms or
\* more and there is no second await
handleSubmitResolved(form, response, late) ==
    LET answered == [form EXCEPT !.inFlight = @ - 1, !.response = response]
    IN  IF late THEN handleSubmitAnswer(answered, response)
        ELSE [answered EXCEPT !.stage = "delay"]

\* the catch block of handleSubmit, sendContact having thrown
handleSubmitRejected(form) ==
    hideLoader(showFormError([form EXCEPT !.inFlight = @ - 1,
                                          !.stage = "idle",
                                          !.response = "failed"]))

----------------------------------------------------------------------------
\* InputManager.  keys holds the keys that are down and justPressed the keys
\* pressed and not yet read.  Only what the program reads is followed: in
\* keys the keys pressed here (GameKeys), in justPressed the key "e", the
\* only one isKeyJustPressed is ever called with.

\* the game keys pressed: forward and interact
GameKeys == {"z", "e"}

\* the keys main.ts passes to isKeyJustPressed
ReadOnce == {"e"}

\* InputManager.isKeyDown(key) on a key set
isKeyDown(ks, key) == key \in ks

\* InputManager.updateMovement: the vector before its normalisation, which
\* keeps its direction and leaves a zero vector zero
updateMovement(ks) ==
    LET forward == IF isKeyDown(ks, "z") \/ isKeyDown(ks, "arrowup")
                   THEN -1 ELSE 0
        back    == IF isKeyDown(ks, "s") \/ isKeyDown(ks, "arrowdown")
                   THEN 1 ELSE 0
        left    == IF isKeyDown(ks, "q") \/ isKeyDown(ks, "arrowleft")
                   THEN -1 ELSE 0
        right   == IF isKeyDown(ks, "d") \/ isKeyDown(ks, "arrowright")
                   THEN 1 ELSE 0
    IN  <<left + right, forward + back>>

\* InputManager.isMoving()
isMoving == movement[1] # 0 \/ movement[2] # 0

\* InputManager.onKeyDown
onKeyDown(key) ==
    IF key = "escape" /\ hasActiveOverlay
    THEN \* closes the top overlay and stops
         /\ overlayStack' = overlayClose(overlayStack)
         /\ UNCHANGED <<inputVars, forms>>
    ELSE IF key = "c"
    THEN \* closes the top overlay, or builds a contact form and opens it
         /\ overlayStack' = IF hasActiveOverlay
                            THEN overlayClose(overlayStack)
                            ELSE overlayOpen(overlayStack,
                                             OverlayContent("contact",
                                                            Len(forms) + 1))
         /\ forms' = IF hasActiveOverlay THEN forms
                     ELSE Append(forms, NewContactForm)
         /\ UNCHANGED inputVars
    ELSE IF hasActiveOverlay \/ key \notin GameKeys
    THEN \* an overlay blocks the game keys
         UNCHANGED <<overlayStack, inputVars, forms>>
    ELSE /\ justPressed' = IF key \in keys THEN justPressed
                           ELSE justPressed \cup ({key} \cap ReadOnce)
         /\ keys' = keys \cup {key}
         /\ movement' = updateMovement(keys \cup {key})
         /\ UNCHANGED <<overlayStack, forms>>

\* InputManager.onKeyUp
onKeyUp(key) ==
    /\ keys' = keys \ {key}
    /\ movement' = updateMovement(keys \ {key})
    /\ UNCHANGED <<justPressed, overlayStack>>

\* InputManager.onBlur
onBlur ==
    /\ keys' = {}
    /\ movement' = <<0, 0>>
    /\ UNCHANGED <<justPressed, overlayStack>>

----------------------------------------------------------------------------
\* main.ts: the update callback

\* Where the player can stand at the end of a frame.  No collision checker
\* is ever set and delta is whatever the clock gives, so a moving player
\* can reach any point; these are the points tried: the spawn, a point in
\* range of the two first left-wall doors, one at exactly 2.5 of the second
\* and in range of none, the period room entry, a point in range of the
\* two first cubes and of the teleporter, and one in range of the
\* teleporter alone.
Positions ==
    { HallSpawn, <<-12, 0, 10>>, <<-10, 0, 10>>,
      EntryPosition, <<-2, 0, -4>>, <<0, 0, -8>> }

\* the loop body keeping the first near anchor
doorScanStep_KeepFirst(foundDoor, i, near) ==
    IF near /\ foundDoor = 0 THEN i ELSE foundDoor

\* if (door.isNear(playerPos, 2.5)) { foundDoor = door; ... }
doorScanStep(foundDoor, i, near) == IF near THEN i ELSE foundDoor

\* if (cube.isNear(playerPos, 1.5)) { foundCube = cube; ... }
cubeScanStep(foundCube, i, near) == IF near THEN i ELSE foundCube

RECURSIVE scanDoors(_, _, _, _)
\* for (const door of doors) { ... }, from door i on
scanDoors(ds, position, i, foundDoor) ==
    IF i > Len(ds)
    THEN [doors |-> ds, foundDoor |-> foundDoor]
    ELSE LET near == DoorIsNear(ds[i].position, position, DoorThreshold)
         IN  scanDoors([ds EXCEPT ![i] = DoorHighlight(@, near)],
                       position, i + 1, doorScanStep(foundDoor, i, near))

RECURSIVE scanCubes(_, _, _, _)
\* for (const cube of projectCubes) { ... }, from cube i on
scanCubes(cs, position, i, foundCube) ==
    IF i > Len(cs)
    THEN [cubes |-> cs, foundCube |-> foundCube]
    ELSE LET near == CubeIsNear(cs[i].position, position, CubeThreshold)
         IN  scanCubes([cs EXCEPT ![i] = CubeHighlight(@, near)],
                       position, i + 1, cubeScanStep(foundCube, i, near))

\* InputManager.isKeyJustPressed(key): the value returned
isKeyJustPressed(jp, key) == key \in jp

\* CSS2DRenderer.render at the end of the frame: the labels of a room that
\* is in the scene get a parent node
renderLabels(rs) ==
    [r \in 1..Len(rs) |->
        IF rs[r].attached THEN [rs[r] EXCEPT !.labelsInDom = TRUE] ELSE rs[r]]

\* the hall block of the callback, the player standing at position
FrameHall(position) ==
    LET scan == scanDoors(doors, position, 1, 0)
        near == IF scan.foundDoor # nearbyDoor THEN scan.foundDoor
                ELSE nearbyDoor
        enters == near # 0 /\ isKeyJustPressed(justPressed, "e")
    IN  /\ playerPos' = position
        /\ enters => Len(pending) < MaxPending
        /\ doors' = scan.doors
        /\ nearbyDoor' = near
        \* enterDoor(nearbyDoor) up to its await: the prompt is hidden and
        \* the fetch is started
        /\ promptVisible' = IF enters THEN FALSE
                            ELSE IF scan.foundDoor # nearbyDoor
                                 THEN scan.foundDoor # 0
                                 ELSE promptVisible
        /\ promptText' = IF scan.foundDoor # nearbyDoor /\ scan.foundDoor # 0
                         THEN "Entrer" ELSE promptText
        /\ justPressed' = IF near # 0 THEN justPressed \ {"e"}
                          ELSE justPressed
        /\ pending' = IF enters THEN Append(pending, near) ELSE pending
        /\ rooms' = renderLabels(rooms)
        /\ UNCHANGED <<currentRoom, activePeriodRoom, visitedDoorIds,
                       isTransitioning, hallVisible, lastEnter, keys,
                       movement, overlayStack, args, ret, player, uiVars>>

\* the period room block of the callback, the player standing at position
FramePeriod(position) ==
    LET room == rooms[activePeriodRoom]
        scan == scanCubes(room.cubes, position, 1, 0)
        onTeleporter ==
            TeleporterIsNear(TeleporterPosition, position,
                             TeleporterThreshold)
        pressed == isKeyJustPressed(justPressed, "e")
        scanned == [rooms EXCEPT ![activePeriodRoom].cubes = scan.cubes]
        moved == [RoomManagerState EXCEPT !.playerPos = position,
                                          !.rooms = scanned]
    IN  IF scan.foundCube # 0
        THEN \* "Examiner"; E opens the project overlay
             /\ pressed => Len(overlayStack) < MaxOverlays
             /\ promptVisible' = TRUE
             /\ promptText' = "Examiner"
             /\ justPressed' = justPressed \ {"e"}
             /\ overlayStack' =
                    IF pressed
                    THEN overlayOpen(overlayStack,
                                     OverlayContent("project",
                                                    scan.foundCube))
                    ELSE overlayStack
             /\ SetRoomManager([moved EXCEPT !.rooms = renderLabels(@)])
             /\ UNCHANGED <<keys, movement, doors, nearbyDoor, pending,
                            args, ret, player, uiVars>>
        ELSE IF onTeleporter
        THEN \* "Retour au hall"; E leaves the room
             /\ promptVisible' = ~pressed
             /\ promptText' = "Retour au hall"
             /\ justPressed' = justPressed \ {"e"}
             /\ SetRoomManager(
                    LET s == IF pressed THEN exitToHall(moved) ELSE moved
                    IN  [s EXCEPT !.rooms = renderLabels(@)])
             /\ UNCHANGED <<keys, movement, overlayStack, doors, nearbyDoor,
                            pending, args, ret, player, uiVars>>
        ELSE /\ promptVisible' = FALSE
             /\ SetRoomManager([moved EXCEPT !.rooms = renderLabels(@)])
             /\ UNCHANGED <<promptText, justPressed, keys, movement,
                            overlayStack, doors, nearbyDoor, pending,
                            args, ret, player, uiVars>>

\* One animation frame: player.update(delta), the update callback, the
\* render.  position is where player.update leaves the player.
Frame(position) ==
    /\ IF isMoving THEN position \in Positions ELSE position = playerPos
    /\ IF currentRoom = "hall"
       THEN FrameHall(position)
       ELSE IF activePeriodRoom # 0
            THEN FramePeriod(position)
            ELSE \* if (!periodRoom) return;
                 /\ playerPos' = position
                 /\ rooms' = renderLabels(rooms)
                 /\ UNCHANGED <<currentRoom, activePeriodRoom,
                                visitedDoorIds, isTransitioning, hallVisible,
                                lastEnter, inputVars, overlayStack,
                                mainVars, args, ret, player, uiVars>>

----------------------------------------------------------------------------
\* main.ts: enterDoor after its await

RemoveAt(seq, k) == SubSeq(seq, 1, k - 1) \o SubSeq(seq, k + 1, Len(seq))

\* the calls of enterPeriodRoom that can throw with the Engine and Player of
\* the program: only the PeriodRoom constructor, on a malformed period
ProgramFaults == {"none", "construct"}

\* every call inside the try block
AllFaults == {"none", "construct", "attach", "teleport"}

\* api.getPeriode(doorId) resolved with periode for the k-th waiting
\* enterDoor: enterPeriodRoom, then door.setOpen(true), or the catch block
FetchResolved(k, periode, failAt) ==
    LET d == pending[k]
        s == enterPeriodRoom(RoomManagerState, periode, failAt)
    IN  /\ (failAt # "construct" /\ ~isTransitioning) => Len(rooms) < MaxRooms
        /\ s.outcome = "rejected" => Len(overlayStack) < MaxOverlays
        /\ pending' = RemoveAt(pending, k)
        /\ SetRoomManager(s)
        /\ doors' = IF s.outcome = "rejected" THEN doors
                    ELSE [doors EXCEPT ![d] = SetOpen(@, TRUE)]
        /\ overlayStack' =
               IF s.outcome = "rejected"
               THEN overlayOpen(overlayStack, OverlayContent("error", 0))
               ELSE overlayStack
        /\ UNCHANGED <<inputVars, nearbyDoor, promptVisible, promptText,
                       args, ret, player, uiVars>>

\* api.getPeriode(doorId) rejected for the k-th waiting enterDoor: the
\* catch block opens the error overlay
FetchFailed(k) ==
    /\ Len(overlayStack) < MaxOverlays
    /\ pending' = RemoveAt(pending, k)
    /\ overlayStack' = overlayOpen(overlayStack, OverlayContent("error", 0))
    /\ UNCHANGED <<rmVars, inputVars, doors, nearbyDoor, promptVisible,
                   promptText, args, ret, player, uiVars>>

----------------------------------------------------------------------------
\* Player.  Angles are whole numbers of sixteenths of a turn (pi = HalfTurn),
\* times are tenths of a second, lengths are tenths of a unit.  A
\* coordinate is a pair <<p, q>> standing for p + q * sqrt(2)/2, which holds
\* the sines of every multiple of pi/4 exactly.

\* Math.PI
HalfTurn == 8

\* config.moveSpeed ?? 5, config.cameraFollowSpeed ?? 2, config.turnSpeed ?? 10
moveSpeed == 5
cameraFollowSpeed == 2
turnSpeed == 10

\* cameraDistance = 5, cameraHeight = 3
cameraDistance == 5
cameraHeight == 3

\* coordinates: sum, difference, multiple, and part n/d of a coordinate
CoordAdd(a, b) == <<a[1] + b[1], a[2] + b[2]>>

CoordSub(a, b) == <<a[1] - b[1], a[2] - b[2]>>

CoordTimes(k, a) == <<k * a[1], k * a[2]>>

CoordPart(a, n, d) == <<(a[1] * n) \div d, (a[2] * n) \div d>>

\* Math.sin and Math.cos of a multiple of pi/4
Sin(angle) ==
    LET k == (angle \div 2) % 8
    IN  CASE k = 0 -> <<0, 0>>  [] k = 1 -> <<0, 1>>
          [] k = 2 -> <<1, 0>>  [] k = 3 -> <<0, 1>>
          [] k = 4 -> <<0, 0>>  [] k = 5 -> <<0, -1>>
          [] k = 6 -> <<-1, 0>> [] OTHER -> <<0, -1>>

Cos(angle) == Sin(angle + HalfTurn \div 2)

\* the angle of (-pi, pi] that Math.atan2 gives for a direction at angle
Atan2(angle) == ((angle + HalfTurn - 1) % (2 * HalfTurn)) - (HalfTurn - 1)

\* one correction in place of each loop
wrapDiff_Once(diff) ==
    IF diff > HalfTurn THEN diff - 2 * HalfTurn
    ELSE IF diff < -HalfTurn THEN diff + 2 * HalfTurn
    ELSE diff

RECURSIVE wrapDiff(_)
\* while (diff > Math.PI) diff -= Math.PI * 2;
\* while (diff < -Math.PI) diff += Math.PI * 2;
wrapDiff(diff) ==
    IF diff > HalfTurn THEN wrapDiff(diff - 2 * HalfTurn)
    ELSE IF diff < -HalfTurn THEN wrapDiff(diff + 2 * HalfTurn)
    ELSE diff

\* Player.lerpAngle(from, to, t), t the fraction t[1] / t[2]:
\* from + diff * Math.min(t, 1)
lerpAngle(from, to, t) ==
    LET diff == wrapDiff(to - from)
    IN  IF t[1] >= t[2] THEN from + diff
        ELSE from + (diff * t[1]) \div t[2]

\* the movement vectors of InputManager.getMovement(), by the signs of x and
\* z (the vector is normalised, so the signs give it)
Movements == {<<x, z>> : x \in {-1, 0, 1}, z \in {-1, 0, 1}}

\* InputManager.isMoving() on a movement vector
isMovingVector(m) == m[1] # 0 \/ m[2] # 0

\* the angle from the camera direction to the direction faced when moving
\* along m: 0 forward, a quarter turn to the left for left, ...
InputOffset(m) ==
    CASE m = <<0, -1>> -> 0
      [] m = <<-1, -1>> -> 2   [] m = <<1, -1>> -> -2
      [] m = <<-1, 0>> -> 4    [] m = <<1, 0>> -> -4
      [] m = <<-1, 1>> -> 6    [] m = <<1, 1>> -> -6
      [] OTHER -> HalfTurn

\* the angle of moveDirection once normalised: opposite to the one faced
moveDirectionAngle(m, cameraAngle) == cameraAngle + InputOffset(m) + HalfTurn

\* targetFacing: cameraAngle + Math.PI on a pure reverse, else
\* Math.atan2(-moveDirection.x, -moveDirection.z)
targetFacing(m, cameraAngle) ==
    IF m[2] > 0 /\ m[1] = 0
    THEN cameraAngle + HalfTurn
    ELSE Atan2(moveDirectionAngle(m, cameraAngle) + HalfTurn)

\* where updateCamera wants the camera: behind the player at cameraDistance
cameraTarget(p) ==
    [x |-> CoordAdd(p.position.x,
                    CoordTimes(10 * cameraDistance, Sin(p.cameraAngle))),
     z |-> CoordAdd(p.position.z,
                    CoordTimes(10 * cameraDistance, Cos(p.cameraAngle)))]

\* Player.updateCamera(delta, immediate): camera.position.set(target), or
\* camera.position.lerp(target, 5 * delta)
updateCamera(p, delta, immediate) ==
    LET target == cameraTarget(p)
    IN  IF immediate
        THEN [p EXCEPT !.camera = target]
        ELSE [p EXCEPT
                !.camera.x = CoordAdd(@, CoordPart(CoordSub(target.x, @),
                                                   5 * delta, 10)),
                !.camera.z = CoordAdd(@, CoordPart(CoordSub(target.z, @),
                                                   5 * delta, 10))]

\* the branch if (isMoving) that never asks the collision checker
updateMoving_IgnoresChecker(p, m, delta, blocked) ==
    LET direction == moveDirectionAngle(m, p.cameraAngle)
        facing == lerpAngle(p.characterFacing, targetFacing(m, p.cameraAngle),
                            <<turnSpeed * delta, 10>>)
    IN  [p EXCEPT !.position =
                      [x |-> CoordAdd(@.x, CoordTimes(moveSpeed * delta,
                                                      Sin(direction))),
                       z |-> CoordAdd(@.z, CoordTimes(moveSpeed * delta,
                                                      Cos(direction)))],
                  !.characterFacing = facing,
                  !.cameraAngle = IF m[2] < 0 \/ m[1] # 0 THEN facing ELSE @]

\* the branch if (isMoving) of Player.update; blocked is what the collision
\* checker answers for the new position (FALSE when none is set)
updateMoving(p, m, delta, blocked) ==
    LET direction == moveDirectionAngle(m, p.cameraAngle)
        newPosition ==
            [x |-> CoordAdd(p.position.x,
                            CoordTimes(moveSpeed * delta, Sin(direction))),
             z |-> CoordAdd(p.position.z,
                            CoordTimes(moveSpeed * delta, Cos(direction)))]
        facing == lerpAngle(p.characterFacing, targetFacing(m, p.cameraAngle),
                            <<turnSpeed * delta, 10>>)
        angle == IF m[2] < 0
                 THEN lerpAngle(p.cameraAngle, facing,
                                <<cameraFollowSpeed * delta, 10>>)
                 ELSE IF m[1] # 0
                 THEN lerpAngle(p.cameraAngle, facing,
                                <<cameraFollowSpeed * 6 * delta, 100>>)
                 ELSE p.cameraAngle
    IN  [p EXCEPT !.position = IF blocked THEN @ ELSE newPosition,
                  !.characterFacing = facing,
                  !.cameraAngle = angle]

\* Player.update that turns the idle character back to the camera direction
update_IdleTurns(p, m, delta, blocked) ==
    updateCamera(IF isMovingVector(m)
                 THEN updateMoving(p, m, delta, blocked)
                 ELSE [p EXCEPT !.characterFacing =
                          lerpAngle(@, p.cameraAngle, <<turnSpeed * delta, 10>>)],
                 delta, FALSE)

\* Player.update(delta) with the movement vector m read from the input
update(p, m, delta, blocked) ==
    updateCamera(IF isMovingVector(m)
                 THEN updateMoving(p, m, delta, blocked)
                 ELSE p,
                 delta, FALSE)

\* new Player(camera, input, {startPosition: (0, 0, 5), moveSpeed: 5})
NewPlayer ==
    updateCamera([position |-> [x |-> <<0, 0>>, z |-> <<50, 0>>],
                  characterFacing |-> 0,
                  cameraAngle |-> 0,
                  camera |-> [x |-> <<0, 0>>, z |-> <<0, 0>>]],
                 0, TRUE)

----------------------------------------------------------------------------
\* The program

\* the state once main.ts has run up to engine.start(), getCV having
\* answered response
InitWorld(response) ==
    /\ currentRoom = "hall"
    /\ activePeriodRoom = 0
    /\ visitedDoorIds = {}
    /\ isTransitioning = FALSE
    /\ hallVisible = TRUE
    /\ rooms = <<>>
    /\ lastEnter = "none"
    /\ playerPos = HallSpawn
    /\ keys = {}
    /\ justPressed = {}
    /\ movement = <<0, 0>>
    /\ overlayStack = <<>>
    /\ doors = initializeWorld(response)
    /\ nearbyDoor = 0
    /\ promptVisible = FALSE
    /\ promptText = "Entrer"
    /\ pending = <<>>
    /\ player = NewPlayer
    /\ held = {}
    /\ forms = <<>>
    /\ notification = NewNotification

NoCall == [fn |-> "none"]

Init ==
    /\ \E response \in CVResponses :
          WorldOnGrid(response) /\ InitWorld(response)
    /\ args = NoCall
    /\ ret = <<>>

\* the keys the user presses: the game keys and Escape
PressedKeys == GameKeys \cup {"escape"}

KeyDown ==
    /\ \E key \in PressedKeys : onKeyDown(key)
    /\ UNCHANGED <<rmVars, mainVars, args, ret, player, held, notification>>

KeyUp ==
    /\ \E key \in keys : onKeyUp(key)
    /\ UNCHANGED <<rmVars, mainVars, args, ret, player, uiVars>>

Blur ==
    /\ onBlur
    /\ UNCHANGED <<rmVars, mainVars, args, ret, player, uiVars>>

\* a click on the close button or on the backdrop of the top overlay
CloseClick ==
    /\ hasActiveOverlay
    /\ overlayStack' = overlayClose(overlayStack)
    /\ UNCHANGED <<rmVars, inputVars, mainVars, args, ret, player, uiVars>>

AnimationFrame == \E position \in Positions : Frame(position)

PeriodeResolved ==
    \E k \in 1..Len(pending), n \in {MaxProjets}, failAt \in ProgramFaults :
        FetchResolved(k, [id |-> doors[pending[k]].id, projets |-> n], failAt)

PeriodeFailed == \E k \in 1..Len(pending) : FetchFailed(k)

Next ==
    \/ KeyDown
    \/ KeyUp
    \/ Blur
    \/ CloseClick
    \/ AnimationFrame
    \/ PeriodeResolved
    \/ PeriodeFailed

Spec == Init /\ [][Next]_vars

----------------------------------------------------------------------------
\* The RoomManager on its own: its public methods called in any order, and
\* any call it makes inside the try block of enterPeriodRoom may throw

\* the ids of the doors of the hall
DoorIds == {doors[i].id : i \in 1..Len(doors)}

EnterPeriodRoomCall ==
    /\ Len(rooms) < MaxRooms
    /\ \E id \in DoorIds, n \in {MaxProjets}, failAt \in AllFaults :
          SetRoomManager(enterPeriodRoom(RoomManagerState,
                                         [id |-> id, projets |-> n], failAt))
    /\ UNCHANGED <<inputVars, overlayStack, mainVars, args, ret, player, uiVars>>

ExitToHallCall ==
    /\ SetRoomManager(exitToHall(RoomManagerState))
    /\ UNCHANGED <<inputVars, overlayStack, mainVars, args, ret, player, uiVars>>

MarkDoorAsVisitedCall ==
    /\ \E id \in DoorIds :
          SetRoomManager(markDoorAsVisited(RoomManagerState, id))
    /\ UNCHANGED <<inputVars, overlayStack, mainVars, args, ret, player, uiVars>>

NextRoomManager ==
    \/ EnterPeriodRoomCall
    \/ ExitToHallCall
    \/ MarkDoorAsVisitedCall

SpecRoomManager == Init /\ [][NextRoomManager]_vars

----------------------------------------------------------------------------
\* Navigation: entry, exit, the guard, disposal, the visited set

\* the sub-rooms attached to the scene
AttachedRooms == {r \in 1..Len(rooms) : rooms[r].attached}

\* C1: an enter request made while another is in progress has no effect, so
\* that at most one sub-room is ever attached to the scene.
C1_OneSubRoomAttached == Cardinality(AttachedRooms) <= 1

\* C1, on the step: once the navigation state is "period", a resolved
\* enterDoor creates no sub-room and leaves the player where it stands.
C1_SecondEnterHasNoEffect ==
    [][(currentRoom = "period" /\ PeriodeResolved)
           => (rooms' = rooms /\ playerPos' = playerPos
               /\ activePeriodRoom' = activePeriodRoom)]_vars

\* C2: exitToHall after a successful enterPeriodRoom(record) puts the player
\* at the hall spawn point, shows the hall, sets the navigation state to
\* "hall", leaves no active sub-room (the one left is detached and
\* disposed), and the visited set contains record.id.
C2_EnterExitRoundTrip ==
    [][(/\ lastEnter = "resolved"
        /\ currentRoom = "period"
        /\ activePeriodRoom # 0
        /\ ExitToHallCall)
           => (/\ playerPos' = HallSpawn
               /\ hallVisible'
               /\ currentRoom' = "hall"
               /\ activePeriodRoom' = 0
               /\ ~rooms'[activePeriodRoom].attached
               /\ rooms'[activePeriodRoom].disposed
               /\ rooms[activePeriodRoom].periodeId \in visitedDoorIds')]_vars

\* C2 witness: an exit has followed a successful entry
C2_Witness ==
    /\ lastEnter = "resolved"
    /\ currentRoom = "hall"
    /\ playerPos = HallSpawn
    /\ hallVisible
    /\ \E r \in 1..Len(rooms) :
          rooms[r].disposed /\ rooms[r].periodeId \in visitedDoorIds

\* the state of the hall with no sub-room
CleanHall ==
    /\ currentRoom = "hall"
    /\ activePeriodRoom = 0
    /\ hallVisible
    /\ AttachedRooms = {}

\* C3: when enterPeriodRoom fails from the hall, every effect of the
\* attempt is undone: no sub-room attached, the hall visible, the visited
\* set as before, the navigation state "hall".
C3_FailedEnterUnwound ==
    [][(CleanHall /\ EnterPeriodRoomCall /\ lastEnter' = "rejected")
           => (CleanHall' /\ visitedDoorIds' = visitedDoorIds)]_vars

\* C4: the guard is never left set once a call of enterPeriodRoom has
\* returned or thrown, so that no call is ignored.
C4_GuardReleased == ~isTransitioning /\ lastEnter # "ignored"

\* C4 witness: the first call threw at engine.add (its room is neither
\* attached nor disposed) and the next call went through
C4_Witness ==
    /\ Len(rooms) >= 2
    /\ ~rooms[1].attached /\ ~rooms[1].disposed
    /\ activePeriodRoom = 2
    /\ lastEnter = "resolved"
    /\ ~isTransitioning

\* C5: in the hall no sub-room is attached to the scene and every sub-room
\* created has had its resources and its labels released.
C5_HallHasNoSubRoom ==
    currentRoom = "hall" =>
        /\ AttachedRooms = {}
        /\ \A r \in 1..Len(rooms) :
              rooms[r].disposed /\ ~rooms[r].labelsInDom

\* C6: the visited set only grows.
C6_VisitedOnlyGrows == [][visitedDoorIds \subseteq visitedDoorIds']_vars

\* C6 witness: two doors visited, one by an entry that was left again
C6_Witness ==
    /\ Cardinality(visitedDoorIds) >= 2
    /\ currentRoom = "hall"
    /\ \E r \in 1..Len(rooms) : rooms[r].disposed

----------------------------------------------------------------------------
\* isNear on its own: one call on an anchor, a point and a threshold

\* the anchors tried: one at the origin, one off it, both above the ground
IsNearAnchors == {<<0, 1, 0>>, <<1, 3, -1>>}

\* the points tried, on the ground and above it
IsNearPoints ==
    {<<x, y, z>> : x \in -MaxCoord..MaxCoord, y \in {0, 2},
                   z \in -MaxCoord..MaxCoord}

\* the thresholds tried: those of main.ts and zero
IsNearThresholds == {0, DoorThreshold, CubeThreshold, TeleporterThreshold}

IsNearArgs ==
    [fn : {"isNear"}, kind : {"door", "cube", "teleporter"},
     anchor : IsNearAnchors, position : IsNearPoints,
     threshold : IsNearThresholds]

InitIsNear ==
    /\ \E response \in CVResponses : ~response.ok /\ InitWorld(response)
    /\ args \in IsNearArgs
    /\ ret = <<>>

IsNearCall ==
    /\ args.fn = "isNear"
    /\ ret = <<>>
    /\ ret' = << CASE args.kind = "door" ->
                        DoorIsNear(args.anchor, args.position, args.threshold)
                   [] args.kind = "cube" ->
                        CubeIsNear(args.anchor, args.position, args.threshold)
                   [] OTHER ->
                        TeleporterIsNear(args.anchor, args.position,
                                         args.threshold) >>
    /\ UNCHANGED <<rmVars, inputVars, overlayStack, mainVars, args, player, uiVars>>

SpecIsNear == InitIsNear /\ [][IsNearCall]_vars

----------------------------------------------------------------------------
\* The layout on its own: the dimensions and the door positions for one pair
\* of counts, as initializeWorld computes them

LayoutArgs ==
    [fn : {"layout"}, formationCount : 0..MaxCount,
     travailCount : 0..MaxCount]

InitLayout ==
    /\ \E response \in CVResponses : ~response.ok /\ InitWorld(response)
    /\ args \in LayoutArgs
    /\ ret = <<>>

LayoutCall ==
    /\ args.fn = "layout"
    /\ ret = <<>>
    /\ LET dims == calculateRoomDimensions(args.formationCount,
                                           args.travailCount)
       IN  ret' = << [dims |-> dims,
                      formation |->
                          [i \in 1..args.formationCount |->
                              calculateDoorPosition("formation", i - 1,
                                  args.formationCount,
                                  dims.width, dims.depth)],
                      travail |->
                          [i \in 1..args.travailCount |->
                              calculateDoorPosition("travail", i - 1,
                                  args.travailCount,
                                  dims.width, dims.depth)]] >>
    /\ UNCHANGED <<rmVars, inputVars, overlayStack, mainVars, args, player, uiVars>>

SpecLayout == InitLayout /\ [][LayoutCall]_vars

----------------------------------------------------------------------------
\* Proximity: selection, range, highlight

\* the square of the distance between a and b on the ground plane
PlanarDistanceSquared(a, b) ==
    (a[1] - b[1]) * (a[1] - b[1]) + (a[3] - b[3]) * (a[3] - b[3])

\* position is within threshold of anchor on the ground plane
InRange(anchor, position, threshold) ==
    threshold > 0
    /\ PlanarDistanceSquared(anchor, position) < threshold * threshold

\* the doors in range of position, by index
DoorsInRange(position) ==
    {i \in 1..Len(doors) :
        InRange(doors[i].position, position, DoorThreshold)}

\* the cubes of cs in range of position, by index
CubesInRange(cs, position) ==
    {i \in 1..Len(cs) : InRange(cs[i].position, position, CubeThreshold)}

\* the first and the last index of a set of indices, 0 for none
FirstOf(S) == IF S = {} THEN 0 ELSE CHOOSE i \in S : \A j \in S : i <= j

LastOf(S) == IF S = {} THEN 0 ELSE CHOOSE i \in S : \A j \in S : j <= i

\* a frame that leaves the player where player.update put it: every frame
\* but the one that returns to the hall
FrameInPlace == Frame(playerPos')

\* a frame run in the hall starts an entry
FrameEntersDoor == Len(pending') > Len(pending) /\ FrameInPlace

\* a frame run in a sub-room opens the overlay of a project
FrameOpensProject ==
    Len(overlayStack') > Len(overlayStack) /\ FrameInPlace

\* C7 as stated: the door entered, the cube examined and the door the
\* prompt is shown for are the first in range in iteration order.
C7_FirstNearSelected ==
    [][/\ (currentRoom = "hall" /\ FrameInPlace)
             => nearbyDoor' = FirstOf(DoorsInRange(playerPos'))
       /\ FrameEntersDoor
             => pending'[Len(pending')] = FirstOf(DoorsInRange(playerPos'))
       /\ FrameOpensProject
             => overlayStack'[Len(overlayStack')].item =
                    FirstOf(CubesInRange(rooms[activePeriodRoom].cubes,
                                         playerPos'))]_vars

\* C7 amended: the door entered, the cube examined and the door the prompt
\* is shown for are the last in range in iteration order.
C7_LastNearSelected ==
    [][/\ (currentRoom = "hall" /\ FrameInPlace)
             => nearbyDoor' = LastOf(DoorsInRange(playerPos'))
       /\ FrameEntersDoor
             => pending'[Len(pending')] = LastOf(DoorsInRange(playerPos'))
       /\ FrameOpensProject
             => overlayStack'[Len(overlayStack')].item =
                    LastOf(CubesInRange(rooms[activePeriodRoom].cubes,
                                        playerPos'))]_vars

\* C7 witness: an entry started with two doors in range, for the last one
C7_Witness ==
    /\ Cardinality(DoorsInRange(playerPos)) >= 2
    /\ pending # <<>>
    /\ pending[Len(pending)] = LastOf(DoorsInRange(playerPos))
    /\ pending[Len(pending)] # FirstOf(DoorsInRange(playerPos))

\* C8: isNear is true exactly when the distance on the ground plane is
\* strictly below the threshold, whatever the heights.
C8_NearIffPlanarDistanceBelow ==
    (args.fn = "isNear" /\ ret # <<>>) =>
        (ret[1] <=> InRange(args.anchor, args.position, args.threshold))

\* C8 witness: a point at exactly the threshold, at another height than the
\* anchor, found not near
C8_Witness ==
    /\ args.fn = "isNear"
    /\ ret = <<FALSE>>
    /\ args.threshold > 0
    /\ PlanarDistanceSquared(args.anchor, args.position) =
           args.threshold * args.threshold
    /\ args.anchor[2] # args.position[2]

\* the highlight of anchor a is on exactly when near, flag and glow alike
HighlightIs(a, near) ==
    a.isHighlighted = near /\ a.emissive = Emissive(near)

\* C9: after the scan of a frame the highlight of every door (in the hall)
\* and of every cube (in a sub-room) is on exactly when the player is in its
\* range, and an anchor whose flag was already right is left as it was.
C9_HighlightFollowsRange ==
    [][/\ (currentRoom = "hall" /\ FrameInPlace) =>
              \A i \in 1..Len(doors) :
                 LET near == InRange(doors[i].position, playerPos',
                                     DoorThreshold)
                 IN  /\ HighlightIs(doors'[i], near)
                     /\ doors[i].isHighlighted = near => doors'[i] = doors[i]
       /\ (currentRoom = "period" /\ currentRoom' = "period"
              /\ activePeriodRoom # 0 /\ FrameInPlace) =>
              LET cs == rooms[activePeriodRoom].cubes
                  cs2 == rooms'[activePeriodRoom].cubes
              IN  /\ Len(cs2) = Len(cs)
                  /\ \A i \in 1..Len(cs) :
                        LET near == InRange(cs[i].position, playerPos',
                                            CubeThreshold)
                        IN  /\ HighlightIs(cs2[i], near)
                            /\ cs[i].isHighlighted = near => cs2[i] = cs[i]
      ]_vars

\* C9 witness: in the hall, two doors lit and in range, another one out of
\* range and dark
C9_Witness ==
    /\ currentRoom = "hall"
    /\ Cardinality(DoorsInRange(playerPos)) >= 2
    /\ \A i \in 1..Len(doors) :
          doors[i].isHighlighted <=> i \in DoorsInRange(playerPos)
    /\ \E i \in 1..Len(doors) : ~doors[i].isHighlighted

----------------------------------------------------------------------------
\* Layout: spacing and dimensions

\* the dimensions are within their minimum and maximum
DimensionsInBounds(dims) ==
    /\ minWidth <= dims.width /\ dims.width <= maxWidth
    /\ minDepth <= dims.depth /\ dims.depth <= maxDepth

\* the fractions a and b, over the same denominator, are at least
\* minSpacing apart
AtLeastMinSpacingApart(a, b) ==
    /\ a[2] = b[2]
    /\ (a[1] - b[1] >= minSpacing * a[2]) \/ (b[1] - a[1] >= minSpacing * a[2])

\* adjacent formation doors (left wall, along z) keep the minimum spacing
FormationSpaced(layout) ==
    \A i \in 1..(Len(layout.formation) - 1) :
        AtLeastMinSpacingApart(layout.formation[i].z,
                               layout.formation[i + 1].z)

\* adjacent travail doors (back wall, along x) keep the minimum spacing
TravailSpaced(layout) ==
    \A i \in 1..(Len(layout.travail) - 1) :
        AtLeastMinSpacingApart(layout.travail[i].x, layout.travail[i + 1].x)

\* the most doors the largest room holds at the minimum spacing: the left
\* wall offers maxDepth - 5 for as many intervals as doors, the back wall
\* maxWidth - 4 for one interval less than doors
FormationCapacity == (maxDepth - 5) \div minSpacing

TravailCapacity == (maxWidth - 4) \div minSpacing + 1

----------------------------------------------------------------------------
\* Layout: where the doors sit on their wall

\* the fraction q equals num / den (den > 0)
FractionIs(q, num, den) == q[2] > 0 /\ q[1] * den = num * q[2]

\* the fraction q is at least num / den, at most num / den (den > 0)
FractionAtLeast(q, num, den) == q[2] > 0 /\ q[1] * den >= num * q[2]

FractionAtMost(q, num, den) == q[2] > 0 /\ q[1] * den <= num * q[2]

\* the fraction a is below the fraction b
FractionBelow(a, b) == a[2] > 0 /\ b[2] > 0 /\ a[1] * b[2] < b[1] * a[2]

\* C12: every travail door has a finite place, a single one included; with
\* two doors or more the first sits at x = -availableWidth / 2, the last at
\* x = +availableWidth / 2, and x grows strictly with the index.
C12_TravailPlacement ==
    (args.fn = "layout" /\ ret # <<>>) =>
        LET doorsB == ret[1].travail
            total == args.travailCount
            availableWidth == ret[1].dims.width - 4
        IN  /\ Len(doorsB) = total
            /\ \A i \in 1..total : doorsB[i].x[2] > 0 /\ doorsB[i].z[2] > 0
            /\ total >= 2 =>
                  /\ FractionIs(doorsB[1].x, -availableWidth, 2)
                  /\ FractionIs(doorsB[total].x, availableWidth, 2)
                  /\ \A i \in 1..(total - 1) :
                        FractionBelow(doorsB[i].x, doorsB[i + 1].x)

\* C12 witness: three travail doors, the third at +availableWidth / 2
C12_Witness ==
    /\ args.fn = "layout"
    /\ ret # <<>>
    /\ args.travailCount = 3
    /\ FractionIs(ret[1].travail[1].x, -(ret[1].dims.width - 4), 2)
    /\ FractionIs(ret[1].travail[3].x, ret[1].dims.width - 4, 2)

\* C13: the first formation door sits at z = depth / 2 - 2.5, z falls
\* strictly with the index, and every z is within [-depth / 2, depth / 2].
C13_FormationPlacement ==
    (args.fn = "layout" /\ ret # <<>>) =>
        LET doorsA == ret[1].formation
            total == args.formationCount
            depth == ret[1].dims.depth
        IN  /\ Len(doorsA) = total
            /\ total >= 1 => FractionIs(doorsA[1].z, depth - 5, 2)
            /\ \A i \in 1..(total - 1) :
                  FractionBelow(doorsA[i + 1].z, doorsA[i].z)
            /\ \A i \in 1..total :
                  /\ FractionAtLeast(doorsA[i].z, -depth, 2)
                  /\ FractionAtMost(doorsA[i].z, depth, 2)

\* C13 witness: four formation doors, the fourth the deepest and inside
\* the room
C13_Witness ==
    /\ args.fn = "layout"
    /\ ret # <<>>
    /\ args.formationCount = 4
    /\ FractionIs(ret[1].formation[1].z, ret[1].dims.depth - 5, 2)
    /\ FractionBelow(ret[1].formation[4].z, ret[1].formation[3].z)
    /\ FractionAtLeast(ret[1].formation[4].z, -ret[1].dims.depth, 2)

----------------------------------------------------------------------------
\* initializeWorld on its own: one call on one answer of getCV

\* the periods the answers are made of: both categories, dates out of id
\* order, two formations with the same date
PeriodePool ==
    { Periode("a", "formation", 2017), Periode("b", "formation", 2015),
      Periode("c", "travail", 2016), Periode("d", "travail", 2014),
      Periode("e", "formation", 2015) }

\* the answers tried: every order of up to MaxPeriodes different periods,
\* and a failed request
WorldResponses ==
    { [ok |-> TRUE, periodes |-> s] :
        s \in { q \in UNION { [1..n -> PeriodePool] : n \in 0..MaxPeriodes } :
                  \A i, j \in DOMAIN q : i # j => q[i] # q[j] } }
    \cup { [ok |-> FALSE, periodes |-> <<>>] }

InitWorldCall ==
    /\ \E response \in CVResponses : ~response.ok /\ InitWorld(response)
    /\ \E response \in WorldResponses :
          args = [fn |-> "initializeWorld", response |-> response]
    /\ ret = <<>>

InitializeWorldCall ==
    /\ args.fn = "initializeWorld"
    /\ ret = <<>>
    /\ ret' = << initializeWorldOutcome(args.response) >>
    /\ UNCHANGED <<rmVars, inputVars, overlayStack, mainVars, args, player, uiVars>>

SpecWorld == InitWorldCall /\ [][InitializeWorldCall]_vars

\* the period of the answer that has this id
PeriodeOf(periodes, id) ==
    CHOOSE p \in {periodes[k] : k \in 1..Len(periodes)} : p.id = id

\* C14: every period of the answer gets one door, and of two doors of the
\* same category the one with the smaller index never belongs to the period
\* that starts later, whatever the order of the answer.
C14_IndexFollowsDebut ==
    (args.fn = "initializeWorld" /\ ret # <<>> /\ args.response.ok) =>
        LET periodes == args.response.periodes
            ds == ret[1].doors
        IN  /\ Len(ds) = Len(periodes)
            /\ {ds[i].id : i \in 1..Len(ds)}
                  = {periodes[k].id : k \in 1..Len(periodes)}
            /\ \A i, j \in 1..Len(ds) :
                  LET p == PeriodeOf(periodes, ds[i].id)
                      q == PeriodeOf(periodes, ds[j].id)
                  IN  (i < j /\ p.type = q.type) => p.debut <= q.debut

\* C14 witness: the answer gives formation "a" (2017) before formation "b"
\* (2015); "b" gets the first door and "a" a later one
C14_Witness ==
    /\ args.fn = "initializeWorld"
    /\ ret # <<>>
    /\ args.response.ok
    /\ Len(args.response.periodes) >= 2
    /\ args.response.periodes[1].id = "a"
    /\ args.response.periodes[2].id = "b"
    /\ ret[1].doors[1].id = "b"
    /\ \E j \in 2..Len(ret[1].doors) : ret[1].doors[j].id = "a"

\* C15: when getCV fails initializeWorld returns without throwing, with one
\* door, the door "error", and one hall, the default one.
C15_FallbackDoorOnFailure ==
    (args.fn = "initializeWorld" /\ ret # <<>> /\ ~args.response.ok) =>
        /\ ~ret[1].thrown
        /\ Len(ret[1].doors) = 1
        /\ ret[1].doors[1].id = "error"
        /\ Len(ret[1].halls) = 1
        /\ ret[1].halls[1] = DefaultHall

\* C15 witness: the call on the failed request has returned the door "error"
C15_Witness ==
    /\ args.fn = "initializeWorld"
    /\ ~args.response.ok
    /\ ret # <<>>
    /\ ~ret[1].thrown
    /\ ret[1].doors[1].id = "error"

----------------------------------------------------------------------------
\* lerpAngle on its own: one call on two angles and a factor

\* the factors tried: 0, 1/2, 1 and 5/2
LerpFactors == {<<0, 10>>, <<5, 10>>, <<10, 10>>, <<25, 10>>}

LerpAngleArgs ==
    [fn : {"lerpAngle"},
     from : {2 * k : k \in -MaxEighths..MaxEighths},
     to : {2 * k : k \in -MaxEighths..MaxEighths},
     t : LerpFactors]

InitLerpAngle ==
    /\ \E response \in CVResponses : ~response.ok /\ InitWorld(response)
    /\ args \in LerpAngleArgs
    /\ ret = <<>>

LerpAngleCall ==
    /\ args.fn = "lerpAngle"
    /\ ret = <<>>
    /\ ret' = << [diff |-> wrapDiff(args.to - args.from),
                  result |-> lerpAngle(args.from, args.to, args.t)] >>
    /\ UNCHANGED <<rmVars, inputVars, overlayStack, mainVars, args, player, uiVars>>

SpecLerpAngle == InitLerpAngle /\ [][LerpAngleCall]_vars

\* a and b differ by a whole number of turns
SameDirection(a, b) == (a - b) % (2 * HalfTurn) = 0

\* d is an odd multiple of pi
OddHalfTurns(d) == d % (2 * HalfTurn) = HalfTurn

\* C17 as stated: the difference lerpAngle interpolates along is congruent
\* to to - from modulo a turn and lies in (-pi, pi].
C17_DiffInHalfOpenRange ==
    (args.fn = "lerpAngle" /\ ret # <<>>) =>
        /\ SameDirection(ret[1].diff, args.to - args.from)
        /\ -HalfTurn < ret[1].diff /\ ret[1].diff <= HalfTurn

\* C17 amended: the difference is congruent to to - from modulo a turn and
\* lies in [-pi, pi]; it is -pi exactly when to - from is a negative odd
\* multiple of pi, +pi exactly when it is a positive one; the result is
\* from plus the part min(t, 1) of it.
C17_DiffInClosedRange ==
    (args.fn = "lerpAngle" /\ ret # <<>>) =>
        LET d == args.to - args.from
            diff == ret[1].diff
        IN  /\ SameDirection(diff, d)
            /\ -HalfTurn <= diff /\ diff <= HalfTurn
            /\ diff = -HalfTurn <=> (OddHalfTurns(d) /\ d < 0)
            /\ diff = HalfTurn <=> (OddHalfTurns(d) /\ d > 0)
            /\ ret[1].result * args.t[2] =
                  args.from * args.t[2] + diff * Min(args.t[1], args.t[2])

\* C17 witness: from pi/2 to -pi/2, interpolated along -pi
C17_Witness ==
    /\ args.fn = "lerpAngle"
    /\ ret # <<>>
    /\ args.from = HalfTurn \div 2
    /\ args.to = -(HalfTurn \div 2)
    /\ ret[1].diff = -HalfTurn

----------------------------------------------------------------------------
\* The Player on its own: frames of update, one after the other

\* the frame times tried, in tenths of a second: clock.getDelta() has no cap
Deltas == {0, 10}

PlayerArgs(m, delta, blocked, frame) ==
    [fn |-> "update", movement |-> m, delta |-> delta,
     blocked |-> blocked, frame |-> frame]

InitPlayer ==
    /\ \E response \in CVResponses : ~response.ok /\ InitWorld(response)
    /\ args = PlayerArgs(<<0, 0>>, 0, FALSE, 0)
    /\ ret = <<>>

\* one frame: the movement the InputManager holds, the time since the last
\* frame, and the answer of the collision checker
PlayerUpdate ==
    /\ args.fn = "update"
    /\ args.frame < MaxFrames
    /\ \E m \in Movements, delta \in Deltas, blocked \in BOOLEAN :
          /\ args' = PlayerArgs(m, delta, blocked, args.frame + 1)
          /\ player' = update(player, m, delta, blocked)
    /\ UNCHANGED <<rmVars, inputVars, overlayStack, mainVars, ret, uiVars>>

SpecPlayer == InitPlayer /\ [][PlayerUpdate]_vars

\* the sign of p + q * sqrt(2)/2
Sign(c) ==
    LET p == c[1]
        q == c[2]
        sgn(n) == IF n > 0 THEN 1 ELSE IF n < 0 THEN -1 ELSE 0
    IN  IF sgn(p) = sgn(q) \/ q = 0 THEN sgn(p)
        ELSE IF p = 0 THEN sgn(q)
        ELSE IF 2 * p * p > q * q THEN sgn(p) ELSE sgn(q)

\* moving from a to b goes no further than c and not the other way
NotPast(a, b, c) == (a <= b /\ b <= c) \/ (c <= b /\ b <= a)

\* C16: after any sequence of update frames the character's facing is an
\* angle of (-pi, pi].
C16_FacingNormalised ==
    args.fn = "update" =>
        (-HalfTurn < player.characterFacing /\ player.characterFacing <= HalfTurn)

\* the camera's position and what it follows, coordinate by coordinate: the
\* frame leaves the camera on the side of its target it was on
CameraNotPastTarget(before, after) ==
    LET target == cameraTarget(after)
    IN  \A c \in {"x", "z"} :
            Sign(CoordSub(target[c], before.camera[c]))
              * Sign(CoordSub(target[c], after.camera[c])) >= 0

\* C18: no frame carries the facing, the camera's angle or the camera's
\* position past what it is interpolated towards.
C18_NoOvershoot ==
    [][PlayerUpdate =>
        /\ isMovingVector(args'.movement) =>
              LET target == targetFacing(args'.movement, player.cameraAngle)
              IN  NotPast(0, player'.characterFacing - player.characterFacing,
                          wrapDiff(target - player.characterFacing))
        /\ NotPast(0, player'.cameraAngle - player.cameraAngle,
                   wrapDiff(player'.characterFacing - player.cameraAngle))
        /\ CameraNotPastTarget(player, player')]_vars

\* the frame's input asks for no displacement of the camera's angle: no
\* input, straight back, or the position stays where it was
Stationary ==
    \/ ~isMovingVector(args'.movement)
    \/ args'.movement[2] > 0 /\ args'.movement[1] = 0
    \/ player'.position = player.position

\* C19: a frame with no input, with the pure reverse input, or in which the
\* position does not change leaves the camera's angle as it was.
C19_CameraAngleKeptWhenStationary ==
    [][(PlayerUpdate /\ Stationary) =>
        player'.cameraAngle = player.cameraAngle]_vars

\* C20: a frame with no movement input leaves the position, the facing and
\* the camera's angle as they were.
C20_IdleFrameChangesNothing ==
    [][(PlayerUpdate /\ ~isMovingVector(args'.movement)) =>
        /\ player'.position = player.position
        /\ player'.characterFacing = player.characterFacing
        /\ player'.cameraAngle = player.cameraAngle]_vars

\* C20 witness: an idle frame of one second after the player has turned
\* and walked away from where it started
C20_Witness ==
    /\ args.fn = "update"
    /\ ~isMovingVector(args.movement)
    /\ args.delta > 0
    /\ player.characterFacing # 0
    /\ player.cameraAngle # 0
    /\ player.position # NewPlayer.position

\* the position the frame asks the collision checker about: the player's,
\* moved by moveSpeed * delta along the input direction seen from the camera
CandidatePosition(p, m, delta) ==
    LET direction == p.cameraAngle + InputOffset(m) + HalfTurn
    IN  [x |-> CoordAdd(p.position.x,
                        CoordTimes(moveSpeed * delta, Sin(direction))),
         z |-> CoordAdd(p.position.z,
                        CoordTimes(moveSpeed * delta, Cos(direction)))]

\* C21: a moving frame whose candidate position the collision checker
\* rejects leaves the position as it was; with no checker, or one that
\* accepts, the player is at the candidate position after the frame.
C21_CollisionGatesTheMove ==
    [][(PlayerUpdate /\ isMovingVector(args'.movement)) =>
        player'.position =
            IF args'.blocked
            THEN player.position
            ELSE CandidatePosition(player, args'.movement, args'.delta)]_vars

\* C21 witness: a frame of one second blocked by the checker, after a
\* frame that moved the player away from where it started
C21_Witness ==
    /\ args.fn = "update"
    /\ isMovingVector(args.movement)
    /\ args.blocked
    /\ args.delta > 0
    /\ player.position # NewPlayer.position

----------------------------------------------------------------------------
\* The InputManager on its own, under a keyboard: held is what is physically
\* down.  A key-down event on a key that is held is the keyboard's repeat.
\* args records the last event and, in fresh, the keys whose latest press
\* has not yet been answered true by isKeyJustPressed.

InputKeys == {"z", "e", "c", "escape"}

InputArgs(event, key, fresh) ==
    [fn |-> "input", event |-> event, key |-> key, fresh |-> fresh]

InitInput ==
    /\ \E response \in CVResponses : ~response.ok /\ InitWorld(response)
    /\ args = InputArgs("none", "none", {})
    /\ ret = <<>>

\* onKeyDown(key) would build a ContactForm
BuildsForm(key) == key = "c" /\ ~hasActiveOverlay

PressKey ==
    /\ args.fn = "input"
    /\ \E key \in InputKeys \ held :
          /\ BuildsForm(key) => Len(forms) < MaxForms
          /\ held' = held \cup {key}
          /\ onKeyDown(key)
          /\ args' = InputArgs("press", key, args.fresh \cup {key})
    /\ UNCHANGED <<rmVars, mainVars, ret, player, notification>>

RepeatKey ==
    /\ args.fn = "input"
    /\ \E key \in held :
          /\ BuildsForm(key) => Len(forms) < MaxForms
          /\ onKeyDown(key)
          /\ args' = InputArgs("repeat", key, args.fresh)
    /\ UNCHANGED <<rmVars, mainVars, ret, player, held, notification>>

ReleaseKey ==
    /\ args.fn = "input"
    /\ \E key \in held :
          /\ held' = held \ {key}
          /\ onKeyUp(key)
          /\ args' = InputArgs("release", key, args.fresh)
    /\ UNCHANGED <<rmVars, mainVars, ret, player, forms, notification>>

\* the window loses the focus; the keys stay as they are
WindowBlur ==
    /\ args.fn = "input"
    /\ onBlur
    /\ args' = InputArgs("blur", "none", args.fresh)
    /\ UNCHANGED <<rmVars, mainVars, ret, player, uiVars>>

\* a call of isKeyJustPressed(key)
ReadKey ==
    /\ args.fn = "input"
    /\ \E key \in ReadOnce :
          /\ ret' = << isKeyJustPressed(justPressed, key) >>
          /\ justPressed' = justPressed \ {key}
          /\ args' = InputArgs("read", key,
                               IF isKeyJustPressed(justPressed, key)
                               THEN args.fresh \ {key} ELSE args.fresh)
    /\ UNCHANGED <<rmVars, mainVars, keys, movement, overlayStack, player,
                   uiVars>>

NextInput ==
    \/ PressKey
    \/ RepeatKey
    \/ ReleaseKey
    \/ WindowBlur
    \/ ReadKey

SpecInput == InitInput /\ [][NextInput]_vars

\* C22: isKeyJustPressed(k) answers true at most once for each press of k
\* (a key going from up to down; the repeats of a held key do not count),
\* and false on every read until the next press.
C22_TrueOncePerPress ==
    [][(args'.fn = "input" /\ args'.event = "read" /\ ret'[1]) =>
        args'.key \in args.fresh]_vars

----------------------------------------------------------------------------
\* Overlays and the game input

\* a frame run in a sub-room returns to the hall: nothing else takes the
\* program from "period" to "hall"
FrameExits == currentRoom = "period" /\ currentRoom' = "hall"

\* the step is a frame that starts an interaction: a door entry, a project
\* overlay, or the return to the hall
FrameInteracts == FrameEntersDoor \/ FrameOpensProject \/ FrameExits

\* C23: while an overlay is active the movement vector is zero, and from
\* one state with an overlay to the next no game key is recorded, the
\* player is not moved by a frame and no frame starts an interaction.
C23_OverlayBlocksInput ==
    /\ [](hasActiveOverlay => movement = <<0, 0>>)
    /\ [][(hasActiveOverlay /\ hasActiveOverlay') =>
            /\ keys' \subseteq keys
            /\ justPressed' \subseteq justPressed
            /\ FrameInPlace => playerPos' = playerPos
            /\ ~FrameInteracts]_vars

\* C23, the interactions alone: no frame starts an interaction while an
\* overlay is active.
C23_NoInteractionUnderOverlay ==
    [][hasActiveOverlay => ~FrameInteracts]_vars

----------------------------------------------------------------------------
\* The OverlayManager on its own: open, close and closeAll in any order.
\* The overlays are numbered as they are opened; args counts the calls, the
\* overlays opened and the overlays closed.

\* what main.ts and the InputManager open overlays for
OverlayKinds == {"contact", "error", "project"}

OverlayArgs(last, calls, opened, closed) ==
    [fn |-> "overlay", last |-> last, calls |-> calls, opened |-> opened,
     closed |-> closed]

InitOverlay ==
    /\ \E response \in CVResponses : ~response.ok /\ InitWorld(response)
    /\ args = OverlayArgs("none", 0, 0, 0)
    /\ ret = <<>>

OverlayOpenCall ==
    /\ args.fn = "overlay"
    /\ args.calls < MaxCalls
    /\ \E kind \in OverlayKinds :
          overlayStack' = overlayOpen(overlayStack,
                                      OverlayContent(kind, args.opened + 1))
    /\ args' = OverlayArgs("open", args.calls + 1, args.opened + 1,
                           args.closed)
    /\ UNCHANGED <<rmVars, inputVars, mainVars, ret, player, uiVars>>

OverlayCloseCall ==
    /\ args.fn = "overlay"
    /\ args.calls < MaxCalls
    /\ overlayStack' = overlayClose(overlayStack)
    /\ args' = OverlayArgs("close", args.calls + 1, args.opened,
                           args.closed + Len(overlayStack)
                             - Len(overlayStack'))
    /\ UNCHANGED <<rmVars, inputVars, mainVars, ret, player, uiVars>>

OverlayCloseAllCall ==
    /\ args.fn = "overlay"
    /\ args.calls < MaxCalls
    /\ overlayStack' = overlayCloseAll(overlayStack)
    /\ args' = OverlayArgs("closeAll", args.calls + 1, args.opened,
                           args.closed + Len(overlayStack)
                             - Len(overlayStack'))
    /\ UNCHANGED <<rmVars, inputVars, mainVars, ret, player, uiVars>>

NextOverlay ==
    \/ OverlayOpenCall
    \/ OverlayCloseCall
    \/ OverlayCloseAllCall

SpecOverlay == InitOverlay /\ [][NextOverlay]_vars

\* the numbers of the overlays of a stack
OpenOverlays(stack) == {stack[i].item : i \in 1..Len(stack)}

\* the overlay opened last among those of a non-empty stack
LatestOpen(stack) ==
    CHOOSE n \in OpenOverlays(stack) : \A m \in OpenOverlays(stack) : m <= n

\* C24: close() takes out exactly the overlay opened last among those still
\* open and leaves the others as they were, close() on an empty stack
\* changes nothing, and hasActiveOverlay() is true exactly when more
\* overlays have been opened than closed.
C24_OverlayStackIsLifo ==
    /\ [](args.fn = "overlay" =>
            (hasActiveOverlay <=> args.opened > args.closed))
    /\ [][OverlayCloseCall =>
            IF overlayStack = <<>>
            THEN overlayStack' = <<>> /\ args'.closed = args.closed
            ELSE /\ OpenOverlays(overlayStack') =
                       OpenOverlays(overlayStack)
                         \ {LatestOpen(overlayStack)}
                 /\ Len(overlayStack') = Len(overlayStack) - 1
                 /\ \A i \in 1..Len(overlayStack') :
                        overlayStack'[i] = overlayStack[i]]_vars

\* C24 witness: three overlays opened and the third closed again
C24_Witness ==
    /\ args.fn = "overlay"
    /\ args.last = "close"
    /\ args.opened = 3
    /\ OpenOverlays(overlayStack) = {1, 2}

\* C25: a frame starts an interaction only for an E press made since the
\* frame before while the anchor was in range: where the player stood when
\* the frame began, the door entered, the cube examined or the teleporter
\* taken was in range, and an E press that a frame does not act on is not
\* kept for a later frame.
C25_PressOutOfRangeNeverActs ==
    [][/\ FrameEntersDoor =>
             InRange(doors[pending'[Len(pending')]].position, playerPos,
                     DoorThreshold)
       /\ FrameOpensProject =>
             InRange(rooms[activePeriodRoom]
                       .cubes[overlayStack'[Len(overlayStack')].item].position,
                     playerPos, CubeThreshold)
       /\ FrameExits =>
             InRange(TeleporterPosition, playerPos, TeleporterThreshold)
       /\ ("e" \in justPressed' /\ FrameInPlace) => FALSE]_vars

----------------------------------------------------------------------------
\* Navigation state and prompt

C27_PromptFollowsRange ==
    [][(currentRoom = "hall" /\ FrameInPlace) =>
        (promptVisible' <=> DoorsInRange(playerPos') # {})]_vars

----------------------------------------------------------------------------
\* The contact form: the C and Escape keys, submit events, the answers of
\* sendContact, and an enterDoor whose getPeriode fails meanwhile

ContactArgs == [fn |-> "contact"]

InitContact ==
    /\ \E response \in CVResponses : ~response.ok /\ InitWorld(response)
    /\ args = ContactArgs
    /\ ret = <<>>

\* the overlay of form f is open
FormOpen(f) ==
    \E i \in 1..Len(overlayStack) :
        overlayStack[i] = OverlayContent("contact", f)

ContactKeyDown ==
    /\ args = ContactArgs
    /\ \E key \in {"c", "escape"} :
          /\ BuildsForm(key) => Len(forms) < MaxForms
          /\ onKeyDown(key)
    /\ UNCHANGED <<rmVars, mainVars, args, ret, player, held, notification>>

\* enterDoor(door) up to its await
EnterDoorCall ==
    /\ args = ContactArgs
    /\ Len(pending) < MaxPending
    /\ \E d \in 1..Len(doors) : pending' = Append(pending, d)
    /\ promptVisible' = FALSE
    /\ UNCHANGED <<rmVars, inputVars, overlayStack, doors, nearbyDoor,
                   promptText, args, ret, player, uiVars>>

\* getPeriode rejects: the catch block of enterDoor opens the error overlay
EnterDoorFails ==
    /\ args = ContactArgs
    /\ Len(overlayStack) < MaxDepth
    /\ \E k \in 1..Len(pending) : pending' = RemoveAt(pending, k)
    /\ overlayStack' = overlayOpen(overlayStack, OverlayContent("error", 0))
    /\ UNCHANGED <<rmVars, inputVars, doors, nearbyDoor, promptVisible,
                   promptText, args, ret, player, uiVars>>

\* the overlay of form f is the one in front
FormInFront(f) ==
    /\ overlayStack # <<>>
    /\ overlayStack[Len(overlayStack)] = OverlayContent("contact", f)

\* a submit event on the form in front
SubmitForm ==
    /\ args = ContactArgs
    /\ \E f \in 1..Len(forms), valid \in BOOLEAN :
          /\ FormInFront(f)
          /\ forms' = [forms EXCEPT ![f] = handleSubmit(@, valid)]
    /\ UNCHANGED <<rmVars, inputVars, overlayStack, mainVars, args, ret,
                   player, held, notification>>

\* sendContact resolves
ContactResolved ==
    /\ args = ContactArgs
    /\ \E f \in 1..Len(forms), response \in {"success", "refused"},
          late \in BOOLEAN :
          /\ forms[f].stage = "sending"
          /\ forms' = [forms EXCEPT
                         ![f] = handleSubmitResolved(@, response, late)]
          /\ overlayStack' = IF late /\ response = "success"
                             THEN closeWithSuccess(overlayStack)
                             ELSE overlayStack
    /\ UNCHANGED <<rmVars, inputVars, mainVars, args, ret, player, held,
                   notification>>

\* sendContact rejects
ContactRejected ==
    /\ args = ContactArgs
    /\ \E f \in 1..Len(forms) :
          /\ forms[f].stage = "sending"
          /\ forms' = [forms EXCEPT ![f] = handleSubmitRejected(@)]
    /\ UNCHANGED <<rmVars, inputVars, overlayStack, mainVars, args, ret,
                   player, held, notification>>

\* the rest of the 500 ms has passed
ContactDelayElapsed ==
    /\ args = ContactArgs
    /\ \E f \in 1..Len(forms) :
          /\ forms[f].stage = "delay"
          /\ forms' = [forms EXCEPT
                         ![f] = handleSubmitAnswer(@, forms[f].response)]
          /\ overlayStack' = IF forms[f].response = "success"
                             THEN closeWithSuccess(overlayStack)
                             ELSE overlayStack
    /\ UNCHANGED <<rmVars, inputVars, mainVars, args, ret, player, held,
                   notification>>

NextContact ==
    \/ ContactKeyDown
    \/ EnterDoorCall
    \/ EnterDoorFails
    \/ SubmitForm
    \/ ContactResolved
    \/ ContactRejected
    \/ ContactDelayElapsed

SpecContact == InitContact /\ [][NextContact]_vars

\* the step is the one in which form f reports its success
ReportsSuccess(f) ==
    forms[f].notify = "none" /\ forms'[f].notify = "scheduled"

\* C28: when a form reports a successful submission the overlay closed is
\* the one that holds this form, whatever was opened since, and no other.
C28_SuccessClosesOwnOverlay ==
    [][\A f \in 1..Len(forms) :
          ReportsSuccess(f) =>
              IF FormOpen(f)
              THEN \E i \in 1..Len(overlayStack) :
                      /\ overlayStack[i] = OverlayContent("contact", f)
                      /\ overlayStack' = RemoveAt(overlayStack, i)
              ELSE overlayStack' = overlayStack]_vars

\* C30: a form never has two sendContact requests awaiting their answer,
\* and a request that fails or is answered success: false leaves the form
\* ready for another submission.
C30_OneRequestInFlight ==
    /\ [](\A f \in 1..Len(forms) : forms[f].inFlight <= 1)
    /\ [][\A f \in 1..Len(forms) :
            (/\ forms[f].stage # "idle"
             /\ forms'[f].stage = "idle"
             /\ forms'[f].response \in {"failed", "refused"}) =>
                /\ ~forms'[f].isSubmitting
                /\ ~forms'[f].disabled
                /\ handleSubmit(forms'[f], TRUE).inFlight = 1]_vars

\* C30 witness: a form whose request failed has sent another one
C30_Witness ==
    \E f \in 1..Len(forms) :
        /\ forms[f].response = "failed"
        /\ forms[f].stage = "sending"
        /\ forms[f].inFlight = 1

----------------------------------------------------------------------------
\* A SuccessNotification taken on its own: show() and hide() calls, the
\* timers that come due and the passing of time.  args keeps the number of
\* calls made, the last call and the time since the last show().

NotificationArgs(calls, last, age) ==
    [fn |-> "notification", calls |-> calls, last |-> last, age |-> age]

InitNotification ==
    /\ \E response \in CVResponses : ~response.ok /\ InitWorld(response)
    /\ args = NotificationArgs(0, "none", 0)
    /\ ret = <<>>

notificationVars ==
    <<rmVars, inputVars, overlayStack, mainVars, ret, player, held, forms>>

ShowCall ==
    /\ args.fn = "notification"
    /\ args.calls < MaxCalls
    /\ notification' = notificationShow(notification)
    /\ args' = NotificationArgs(args.calls + 1, "show", 0)
    /\ UNCHANGED notificationVars

HideCall ==
    /\ args.fn = "notification"
    /\ args.calls < MaxCalls
    /\ notification' = notificationHide(notification)
    /\ args' = NotificationArgs(args.calls + 1, "hide", args.age)
    /\ UNCHANGED notificationVars

\* a timer that is due fires; timers due within the same tenth of a second
\* fire in any order
TimerFires ==
    /\ args.fn = "notification"
    /\ \E t \in notification.timers :
          /\ t.left = 0
          /\ notification' = notificationTimer(notification, t)
    /\ UNCHANGED <<notificationVars, args>>

\* a tenth of a second passes while a timer is awaited and none is due
Tick ==
    /\ args.fn = "notification"
    /\ notification.timers # {}
    /\ \A t \in notification.timers : t.left > 0
    /\ notification' = notificationTick(notification)
    /\ args' = [args EXCEPT !.age = IF @ < DISPLAY_DURATION
                                    THEN @ + 1 ELSE @]
    /\ UNCHANGED notificationVars

NextNotification ==
    \/ ShowCall
    \/ HideCall
    \/ TimerFires
    \/ Tick

SpecNotification == InitNotification /\ [][NextNotification]_vars

\* C29: a notification shown and not hidden since stays in the page, as the
\* current element, for 3 seconds; only the latest notification carries the
\* "show" class; and once no timer is pending no element is left in the
\* page.
C29_ShownUntilClosedThenRemoved ==
    args.fn = "notification" =>
        /\ (args.last = "show" /\ args.age < DISPLAY_DURATION) =>
               /\ notification.element = notification.created
               /\ notification.created \in notification.dom
        /\ notification.shown \subseteq {notification.created}
        /\ notification.timers = {} => notification.dom = {}

====
